---- MODULE Spec2Model ----
(***************************************************************************)
(* The enhanced post-generator workflow of                                 *)
(* src/workflows/postgenerator_workflow.py: planner -> writer ->           *)
(* {fact_checker, sentiment_analyzer, seo_optimizer} -> merge_analysis ->  *)
(* router -> (writer | END).                                               *)
(*                                                                         *)
(* The graph state is a Python dict: it is modelled as a TLA+ function     *)
(* whose DOMAIN is the set of keys present, so that state.get(k, default)  *)
(* and a missing key are what they are in the code.  Scores are kept in    *)
(* hundredths (0.80 is 80).                                                *)
(*                                                                         *)
(* After the graph come the handlers of src/api/main.py (create_session,   *)
(* generate_post, generate_post_stream) and PDFDataPipeline.run of         *)
(* src/datapipeline/run_datapipeline.py, each with its own variable and    *)
(* its own specification.                                                  *)
(***************************************************************************)
EXTENDS Integers, Sequences, FiniteSets, TLC

VARIABLES state, pc, done, route, writer_runs, env, enable_hitl, merge_runs, resumes,
          api, sessions, pipeline

vars == <<state, pc, done, route, writer_runs, env, enable_hitl, merge_runs, resumes,
          api, sessions, pipeline>>

\* the variables of the graph run, of the API handlers and of the PDF pipeline
graph_vars == <<state, pc, done, route, writer_runs, env, enable_hitl, merge_runs, resumes>>
other_vars == <<api, sessions, pipeline>>

-----------------------------------------------------------------------------
(* Bounds of the model *)

\* largest max_refinements (and refinement_count) a caller supplies
MaxMaxRefinements == 2

\* how many times the caller resumes an interrupted run
MaxResumes == 2

\* the value of a variable that belongs to a part of the program that is not running
Idle == [step |-> "idle"]

\* the texts the writer may produce (the empty text included)
Drafts == {"", "draft_a", "draft_b"}

\* the scores an evaluator may report for one metric, in hundredths
ScoreValues == {0, 50, 80, 90}

\* the values FAITHFULNESS_THRESHOLD / ANSWER_RELEVANCY_THRESHOLD may be set to
ThresholdValues == {0, 90}

-----------------------------------------------------------------------------
(* Python dict helpers *)

\* state.get(k, d)
Get(s, k, d) == IF k \in DOMAIN s THEN s[k] ELSE d

\* state[k] = v
Put(s, k, v) == [x \in (DOMAIN s) \cup {k} |-> IF x = k THEN v ELSE s[x]]

EmptyDict == [x \in {} |-> 0]

\* every dict over a subset of the keys ks with values in vs
Dicts(ks, vs) == UNION {[K -> vs] : K \in SUBSET ks}

-----------------------------------------------------------------------------
(* Program constants *)

DefaultFaithThreshold == 80
DefaultRelevancyThreshold == 80
sentiment_threshold == 70
seo_threshold == 75
sentiment_score == 75
readability_score == 78
DefaultMaxRefinementLoops == 1

CheckNames == {"faithfulness", "relevancy", "sentiment", "seo"}
CriticalChecks == {"faithfulness", "relevancy"}

\* float(os.getenv(name, default))
GetEnvThreshold(e, name, default) == Get(e, name, default)

\* state.get("refinement_count", 0)
RefinementCount(s) == Get(s, "refinement_count", 0)

\* state.get("max_refinements", int(os.getenv("MAX_REFINEMENT_LOOPS", "1")))
MaxRefinements(s) == Get(s, "max_refinements", DefaultMaxRefinementLoops)

-----------------------------------------------------------------------------
(* Nodes *)

\* create_plan that stores the tone it resolved (state, else default) in the state
create_plan_stores_tone(s) ==
    Put(Put(Put(Put(s, "plan", "plan"), "context", "context"),
            "retrieved_docs", "docs"),
        "tone", Get(s, "tone", "professional"))

\* create_plan: writes plan, context and retrieved_docs
create_plan(s) ==
    Put(Put(Put(s, "plan", "plan"), "context", "context"), "retrieved_docs", "docs")

\* write_post: the writer overwrites draft with a new text
write_post(s, text) == Put(s, "draft", text)

\* check_facts: the evaluator's scores (any of the two metrics may be missing)
check_facts(s, sc) == Put(s, "scores", sc)

\* analyze_sentiment that reports a score of 0.65, below the 0.70 threshold
analyze_sentiment_low_score(s) ==
    Put(s, "sentiment_analysis",
        [sentiment_score |-> 65,
         detected_tone |-> Get(s, "tone", "professional"),
         tone_match |-> TRUE])

analyze_sentiment(s) ==
    Put(s, "sentiment_analysis",
        [sentiment_score |-> sentiment_score,
         detected_tone |-> Get(s, "tone", "professional"),
         tone_match |-> TRUE])

\* optimize_seo that stores its metrics under sentiment_analysis as well
optimize_seo_writes_sentiment(s) ==
    LET seo_metrics == [keyword_density |-> 85,
                        readability_score |-> readability_score]
    IN  Put(Put(s, "seo_metrics", seo_metrics), "sentiment_analysis", seo_metrics)

optimize_seo(s) ==
    Put(s, "seo_metrics",
        [keyword_density |-> 85,
         readability_score |-> readability_score])

\* the four threshold comparisons of merge_analysis_results
Checks(s, e) ==
    LET fact_scores == Get(s, "scores", EmptyDict)
        sentiment == Get(s, "sentiment_analysis", EmptyDict)
        seo == Get(s, "seo_metrics", EmptyDict)
        faith_threshold ==
            GetEnvThreshold(e, "FAITHFULNESS_THRESHOLD", DefaultFaithThreshold)
        relevancy_threshold ==
            GetEnvThreshold(e, "ANSWER_RELEVANCY_THRESHOLD", DefaultRelevancyThreshold)
    IN  [faithfulness |-> Get(fact_scores, "faithfulness", 0) >= faith_threshold,
         relevancy |-> Get(fact_scores, "answer_relevancy", 0) >= relevancy_threshold,
         sentiment |-> Get(sentiment, "sentiment_score", 0) >= sentiment_threshold,
         seo |-> Get(seo, "readability_score", 0) >= seo_threshold]

\* feedback_parts with the relevancy and sentiment sentences appended in the
\* other order
FeedbackPartsReordered(s, checks) ==
    (IF ~checks.faithfulness
     THEN << <<"Improve factual accuracy based on source materials.">> >> ELSE <<>>)
    \o (IF ~checks.sentiment
        THEN << <<"Adjust tone to better match requested: ",
                  Get(s, "tone", "professional")>> >> ELSE <<>>)
    \o (IF ~checks.relevancy
        THEN << <<"Stay more focused on the topic: ", s["topic"]>> >> ELSE <<>>)
    \o (IF ~checks.seo
        THEN << <<"Improve readability and keyword usage for better engagement.">> >>
        ELSE <<>>)

\* feedback_parts, one sentence per failed check, in the code's order; a
\* sentence is its fixed text followed by the value formatted into it
FeedbackParts(s, checks) ==
    (IF ~checks.faithfulness
     THEN << <<"Improve factual accuracy based on source materials.">> >> ELSE <<>>)
    \o (IF ~checks.relevancy
        THEN << <<"Stay more focused on the topic: ", s["topic"]>> >> ELSE <<>>)
    \o (IF ~checks.sentiment
        THEN << <<"Adjust tone to better match requested: ",
                  Get(s, "tone", "professional")>> >> ELSE <<>>)
    \o (IF ~checks.seo
        THEN << <<"Improve readability and keyword usage for better engagement.">> >>
        ELSE <<>>)

\* merge_analysis_results with any() in place of all()
merge_any_pass(s, e) ==
    LET checks == Checks(s, e)
        all_pass == \E k \in CheckNames : checks[k]
        feedback_parts == FeedbackParts(s, checks)
        feedback == IF feedback_parts # <<>> THEN feedback_parts
                    ELSE << <<"All quality checks passed!">> >>
    IN  Put(Put(Put(s, "needs_refinement", ~all_pass),
                "feedback", feedback),
            "quality_checks", checks)

\* merge_analysis_results with the negation of all_pass dropped
merge_needs_refinement_inverted(s, e) ==
    LET checks == Checks(s, e)
        all_pass == \A k \in CheckNames : checks[k]
        feedback_parts == FeedbackParts(s, checks)
        feedback == IF feedback_parts # <<>> THEN feedback_parts
                    ELSE << <<"All quality checks passed!">> >>
    IN  Put(Put(Put(s, "needs_refinement", all_pass),
                "feedback", feedback),
            "quality_checks", checks)

merge_analysis_results(s, e) ==
    LET checks == Checks(s, e)
        all_pass == \A k \in CheckNames : checks[k]
        feedback_parts == FeedbackParts(s, checks)
        feedback == IF feedback_parts # <<>> THEN feedback_parts
                    ELSE << <<"All quality checks passed!">> >>
    IN  Put(Put(Put(s, "needs_refinement", ~all_pass),
                "feedback", feedback),
            "quality_checks", checks)

\* router_node_enhanced with the cap compared by > instead of >=
router_cap_off_by_one(s) ==
    LET needs_refinement == Get(s, "needs_refinement", FALSE)
        refinement_count == RefinementCount(s)
        max_refinements == MaxRefinements(s)
    IN  IF ~needs_refinement
        THEN Put(s, "final_post", Get(s, "draft", ""))
        ELSE IF refinement_count > max_refinements
        THEN Put(Put(s, "final_post", Get(s, "draft", "")),
                 "needs_refinement", FALSE)
        ELSE Put(s, "refinement_count", refinement_count + 1)

\* router_node_enhanced that clears needs_refinement when it asks for a refinement
router_refine_clears_needs(s) ==
    LET needs_refinement == Get(s, "needs_refinement", FALSE)
        refinement_count == RefinementCount(s)
        max_refinements == MaxRefinements(s)
    IN  IF ~needs_refinement
        THEN Put(s, "final_post", Get(s, "draft", ""))
        ELSE IF refinement_count >= max_refinements
        THEN Put(Put(s, "final_post", Get(s, "draft", "")),
                 "needs_refinement", FALSE)
        ELSE Put(Put(s, "refinement_count", refinement_count + 1),
                 "needs_refinement", FALSE)

\* router_node_enhanced that accepts at the cap without copying the draft
router_cap_no_final_post(s) ==
    LET needs_refinement == Get(s, "needs_refinement", FALSE)
        refinement_count == RefinementCount(s)
        max_refinements == MaxRefinements(s)
    IN  IF ~needs_refinement
        THEN Put(s, "final_post", Get(s, "draft", ""))
        ELSE IF refinement_count >= max_refinements
        THEN Put(s, "needs_refinement", FALSE)
        ELSE Put(s, "refinement_count", refinement_count + 1)

router_node_enhanced(s) ==
    LET needs_refinement == Get(s, "needs_refinement", FALSE)
        refinement_count == RefinementCount(s)
        max_refinements == MaxRefinements(s)
    IN  IF ~needs_refinement
        THEN Put(s, "final_post", Get(s, "draft", ""))
        ELSE IF refinement_count >= max_refinements
        THEN Put(Put(s, "final_post", Get(s, "draft", "")),
                 "needs_refinement", FALSE)
        ELSE Put(s, "refinement_count", refinement_count + 1)

\* should_refine_enhanced without the forced refinement for critical failures
should_refine_no_critical(s) ==
    LET needs_refinement == Get(s, "needs_refinement", FALSE)
        refinement_count == RefinementCount(s)
        max_refinements == MaxRefinements(s)
    IN  IF Get(s, "human_force_publish", FALSE) THEN "end"
        ELSE IF ~needs_refinement \/ refinement_count >= max_refinements
        THEN "end"
        ELSE "refine"

\* should_refine_enhanced without the human override
should_refine_no_override(s) ==
    LET needs_refinement == Get(s, "needs_refinement", FALSE)
        refinement_count == RefinementCount(s)
        max_refinements == MaxRefinements(s)
        quality_checks == Get(s, "quality_checks", EmptyDict)
        critical_failures ==
            Cardinality({k \in DOMAIN quality_checks :
                            k \in CriticalChecks /\ ~quality_checks[k]})
    IN  IF critical_failures > 0 /\ refinement_count < max_refinements
        THEN "refine"
        ELSE IF ~needs_refinement \/ refinement_count >= max_refinements
        THEN "end"
        ELSE "refine"

\* should_refine_enhanced with the cap of the forced refinement compared by <=
should_refine_cap_inclusive(s) ==
    LET needs_refinement == Get(s, "needs_refinement", FALSE)
        refinement_count == RefinementCount(s)
        max_refinements == MaxRefinements(s)
        quality_checks == Get(s, "quality_checks", EmptyDict)
        critical_failures ==
            Cardinality({k \in DOMAIN quality_checks :
                            k \in CriticalChecks /\ ~quality_checks[k]})
    IN  IF Get(s, "human_force_publish", FALSE) THEN "end"
        ELSE IF critical_failures > 0 /\ refinement_count <= max_refinements
        THEN "refine"
        ELSE IF ~needs_refinement \/ refinement_count >= max_refinements
        THEN "end"
        ELSE "refine"

\* should_refine_enhanced that refines on a critical failure whatever the count
should_refine_ignores_cap(s) ==
    LET needs_refinement == Get(s, "needs_refinement", FALSE)
        refinement_count == RefinementCount(s)
        max_refinements == MaxRefinements(s)
        quality_checks == Get(s, "quality_checks", EmptyDict)
        critical_failures ==
            Cardinality({k \in DOMAIN quality_checks :
                            k \in CriticalChecks /\ ~quality_checks[k]})
    IN  IF Get(s, "human_force_publish", FALSE) THEN "end"
        ELSE IF critical_failures > 0
        THEN "refine"
        ELSE IF ~needs_refinement \/ refinement_count >= max_refinements
        THEN "end"
        ELSE "refine"

should_refine_enhanced(s) ==
    LET needs_refinement == Get(s, "needs_refinement", FALSE)
        refinement_count == RefinementCount(s)
        max_refinements == MaxRefinements(s)
        quality_checks == Get(s, "quality_checks", EmptyDict)
        critical_failures ==
            Cardinality({k \in DOMAIN quality_checks :
                            k \in CriticalChecks /\ ~quality_checks[k]})
    IN  IF Get(s, "human_force_publish", FALSE) THEN "end"
        ELSE IF critical_failures > 0 /\ refinement_count < max_refinements
        THEN "refine"
        ELSE IF ~needs_refinement \/ refinement_count >= max_refinements
        THEN "end"
        ELSE "refine"

\* route_to_specialized_writer without the thought_leadership branch
route_without_thought_leadership(s) ==
    LET platform == Get(s, "platform", "linkedin")
        content_type == Get(s, "content_type", "standard")
    IN  IF platform = "linkedin"
        THEN IF content_type = "technical" THEN "technical_linkedin_writer"
             ELSE "standard_linkedin_writer"
        ELSE IF platform = "twitter"
        THEN IF content_type = "thread" THEN "twitter_thread_writer"
             ELSE "twitter_writer"
        ELSE "general_writer"

route_to_specialized_writer(s) ==
    LET platform == Get(s, "platform", "linkedin")
        content_type == Get(s, "content_type", "standard")
    IN  IF platform = "linkedin"
        THEN IF content_type = "technical" THEN "technical_linkedin_writer"
             ELSE IF content_type = "thought_leadership" THEN "thought_leader_writer"
             ELSE "standard_linkedin_writer"
        ELSE IF platform = "twitter"
        THEN IF content_type = "thread" THEN "twitter_thread_writer"
             ELSE "twitter_writer"
        ELSE "general_writer"

-----------------------------------------------------------------------------
(* The caller's input *)

WithOpt(S, k, vals) == S \cup {Put(s, k, v) : s \in S, v \in vals}

BaseInput ==
    [user_id |-> "user-456", session_id |-> "session-123",
     topic |-> "AI advancements", platform |-> "linkedin"]

\* the fields the caller supplies and no step may change
InputFields == {"user_id", "session_id", "topic", "platform", "tone"}

\* tone is optional: the caller may leave it out.  human_force_publish is
\* either left out (read as False) or True.
InputStates ==
    {s \in WithOpt(WithOpt(WithOpt(WithOpt({BaseInput},
                                           "tone", {"insightful"}),
                                   "max_refinements", 0..MaxMaxRefinements),
                           "refinement_count", 0..MaxMaxRefinements),
                   "human_force_publish", {TRUE}) :
        RefinementCount(s) <= MaxRefinements(s)}

Envs == Dicts({"FAITHFULNESS_THRESHOLD", "ANSWER_RELEVANCY_THRESHOLD"}, ThresholdValues)

\* what the evaluator may return: any of the two metrics may be missing
ScoreDicts == Dicts({"faithfulness", "answer_relevancy"}, ScoreValues)

AnalysisNodes == {"fact_checker", "sentiment_analyzer", "seo_optimizer"}

-----------------------------------------------------------------------------
(* The graph of build_enhanced_graph *)

Init ==
    /\ state \in InputStates
    /\ env \in Envs
    /\ enable_hitl \in BOOLEAN
    /\ pc = "planner"
    /\ done = {}
    /\ route = "none"
    /\ writer_runs = 0
    /\ merge_runs = 0
    /\ resumes = 0
    /\ api = Idle
    /\ sessions = Idle
    /\ pipeline = Idle

Planner ==
    /\ pc = "planner"
    /\ state' = create_plan(state)
    /\ pc' = "writer"
    /\ UNCHANGED <<done, route, writer_runs, env, enable_hitl, merge_runs, resumes>>
    /\ UNCHANGED other_vars

\* the writer's edges to the analysis nodes added also when enable_hitl is set
WriterWithoutReview ==
    /\ pc = "writer"
    /\ \E text \in Drafts : state' = write_post(state, text)
    /\ writer_runs' = writer_runs + 1
    /\ pc' = "analysis"
    /\ done' = {}
    /\ UNCHANGED <<route, env, enable_hitl, merge_runs, resumes>>
    /\ UNCHANGED other_vars

Writer ==
    /\ pc = "writer"
    /\ \E text \in Drafts : state' = write_post(state, text)
    /\ writer_runs' = writer_runs + 1
    /\ pc' = IF enable_hitl THEN "human_review" ELSE "analysis"
    /\ done' = {}
    /\ UNCHANGED <<route, env, enable_hitl, merge_runs, resumes>>
    /\ UNCHANGED other_vars

\* human_review raises GraphInterrupt: the run is suspended
HumanReview ==
    /\ pc = "human_review"
    /\ pc' = "interrupted"
    /\ UNCHANGED <<state, done, route, writer_runs, env, enable_hitl, merge_runs, resumes>>
    /\ UNCHANGED other_vars

\* resume_interrupted_workflow: compiled_graph.invoke(human_input, config) on the
\* interrupted thread.  The input is merged into the checkpointed state; the
\* runner then either re-enters the interrupted node or starts again at the
\* entry point.
HumanInputs ==
    {[human_approved |-> a, human_feedback |-> f] :
        a \in BOOLEAN, f \in {"None", "feedback"}}

ResumeTargets == {"human_review", "planner"}

Resume ==
    /\ pc = "interrupted"
    /\ resumes < MaxResumes
    /\ \E human_input \in HumanInputs :
          state' = Put(Put(state, "human_approved", human_input.human_approved),
                       "human_feedback", human_input.human_feedback)
    /\ \E target \in ResumeTargets : pc' = target
    /\ resumes' = resumes + 1
    /\ UNCHANGED <<done, route, writer_runs, env, enable_hitl, merge_runs>>
    /\ UNCHANGED other_vars

FactChecker ==
    /\ pc = "analysis"
    /\ "fact_checker" \notin done
    /\ \E sc \in ScoreDicts : state' = check_facts(state, sc)
    /\ done' = done \cup {"fact_checker"}
    /\ UNCHANGED <<pc, route, writer_runs, env, enable_hitl, merge_runs, resumes>>
    /\ UNCHANGED other_vars

SentimentAnalyzer ==
    /\ pc = "analysis"
    /\ "sentiment_analyzer" \notin done
    /\ state' = analyze_sentiment(state)
    /\ done' = done \cup {"sentiment_analyzer"}
    /\ UNCHANGED <<pc, route, writer_runs, env, enable_hitl, merge_runs, resumes>>
    /\ UNCHANGED other_vars

SeoOptimizer ==
    /\ pc = "analysis"
    /\ "seo_optimizer" \notin done
    /\ state' = optimize_seo(state)
    /\ done' = done \cup {"seo_optimizer"}
    /\ UNCHANGED <<pc, route, writer_runs, env, enable_hitl, merge_runs, resumes>>
    /\ UNCHANGED other_vars

\* merge_analysis started as soon as one of its predecessors has completed
MergeAnalysisAfterAnyPredecessor ==
    /\ pc = "analysis"
    /\ done # {}
    /\ state' = merge_analysis_results(state, env)
    /\ merge_runs' = merge_runs + 1
    /\ pc' = "router"
    /\ UNCHANGED <<done, route, writer_runs, env, enable_hitl, resumes>>
    /\ UNCHANGED other_vars

\* fan-in: merge_analysis runs once all three analysis nodes have completed
MergeAnalysis ==
    /\ pc = "analysis"
    /\ done = AnalysisNodes
    /\ state' = merge_analysis_results(state, env)
    /\ merge_runs' = merge_runs + 1
    /\ pc' = "router"
    /\ UNCHANGED <<done, route, writer_runs, env, enable_hitl, resumes>>
    /\ UNCHANGED other_vars

\* the router node, then the conditional edge evaluated on the state it returned
Router ==
    /\ pc = "router"
    /\ state' = router_node_enhanced(state)
    /\ route' = should_refine_enhanced(state')
    /\ pc' = IF route' = "refine" THEN "writer" ELSE "END"
    /\ UNCHANGED <<done, writer_runs, env, enable_hitl, merge_runs, resumes>>
    /\ UNCHANGED other_vars

\* the steps the graph runner takes by itself
RunnerStep ==
    \/ Planner
    \/ Writer
    \/ HumanReview
    \/ FactChecker
    \/ SentimentAnalyzer
    \/ SeoOptimizer
    \/ MergeAnalysis
    \/ Router

Next ==
    \/ RunnerStep
    \/ Resume

Spec == Init /\ [][Next]_vars

\* the graph runner runs every node that is ready, and every node returns;
\* nothing obliges the caller to resume an interrupted run
FairSpec == Spec /\ WF_vars(RunnerStep)

-----------------------------------------------------------------------------
(* should_refine_enhanced as a function of an arbitrary state *)

GateStates ==
    WithOpt(WithOpt(WithOpt(WithOpt(
        {[quality_checks |-> qc] : qc \in Dicts(CheckNames, BOOLEAN)} \cup {EmptyDict},
        "needs_refinement", BOOLEAN),
        "human_force_publish", BOOLEAN),
        "refinement_count", 0..MaxMaxRefinements),
        "max_refinements", 0..MaxMaxRefinements)

GateInit ==
    /\ state \in GateStates
    /\ env = EmptyDict
    /\ enable_hitl = FALSE
    /\ pc = "gate"
    /\ done = {}
    /\ route = "none"
    /\ writer_runs = 0
    /\ merge_runs = 0
    /\ resumes = 0
    /\ api = Idle
    /\ sessions = Idle
    /\ pipeline = Idle

ShouldRefine ==
    /\ pc = "gate"
    /\ route' = should_refine_enhanced(state)
    /\ pc' = "routed"
    /\ UNCHANGED <<state, done, writer_runs, env, enable_hitl, merge_runs, resumes>>
    /\ UNCHANGED other_vars

GateNext == ShouldRefine

GateSpec == GateInit /\ [][GateNext]_vars

-----------------------------------------------------------------------------
(* merge_analysis_results as a function of an arbitrary state *)

\* the analysis results a state may hold: each of scores, sentiment_analysis
\* and seo_metrics absent, or present with any of its metrics missing
MergeStates ==
    WithOpt(WithOpt(WithOpt(WithOpt({BaseInput},
        "tone", {"casual"}),
        "scores", Dicts({"faithfulness", "answer_relevancy"}, ScoreValues)),
        "sentiment_analysis", Dicts({"sentiment_score"}, ScoreValues)),
        "seo_metrics", Dicts({"readability_score"}, ScoreValues))

MergeInit ==
    /\ state \in MergeStates
    /\ env \in Envs
    /\ enable_hitl = FALSE
    /\ pc = "merge"
    /\ done = AnalysisNodes
    /\ route = "none"
    /\ writer_runs = 0
    /\ merge_runs = 0
    /\ resumes = 0
    /\ api = Idle
    /\ sessions = Idle
    /\ pipeline = Idle

Merge ==
    /\ pc = "merge"
    /\ state' = merge_analysis_results(state, env)
    /\ merge_runs' = merge_runs + 1
    /\ pc' = "merged"
    /\ UNCHANGED <<done, route, writer_runs, env, enable_hitl, resumes>>
    /\ UNCHANGED other_vars

MergeNext == Merge

MergeSpec == MergeInit /\ [][MergeNext]_vars

-----------------------------------------------------------------------------
(* route_to_specialized_writer as a function of an arbitrary state *)

Platforms == {"linkedin", "twitter", "facebook"}
ContentTypes == {"technical", "thought_leadership", "thread", "standard"}

WriterRouteStates ==
    WithOpt(WithOpt(WithOpt(WithOpt({EmptyDict},
        "platform", Platforms),
        "content_type", ContentTypes),
        "tone", {"casual", "professional"}),
        "topic", {"AI advancements", "thread"})

WriterRouteInit ==
    /\ state \in WriterRouteStates
    /\ env = EmptyDict
    /\ enable_hitl = FALSE
    /\ pc = "route_writer"
    /\ done = {}
    /\ route = "none"
    /\ writer_runs = 0
    /\ merge_runs = 0
    /\ resumes = 0
    /\ api = Idle
    /\ sessions = Idle
    /\ pipeline = Idle

RouteToWriter ==
    /\ pc = "route_writer"
    /\ route' = route_to_specialized_writer(state)
    /\ pc' = "writer_routed"
    /\ UNCHANGED <<state, done, writer_runs, env, enable_hitl, merge_runs, resumes>>
    /\ UNCHANGED other_vars

WriterRouteNext == RouteToWriter

WriterRouteSpec == WriterRouteInit /\ [][WriterRouteNext]_vars

-----------------------------------------------------------------------------
(* Predicates used by the properties *)

\* quality_checks marks faithfulness or relevancy as false
CriticalFailure(s) ==
    LET qc == Get(s, "quality_checks", EmptyDict)
    IN  \E k \in CriticalChecks \cap DOMAIN qc : ~qc[k]

\* quality_checks marks some check as false
SomeCheckFails(s) ==
    LET qc == Get(s, "quality_checks", EmptyDict)
    IN  \E k \in DOMAIN qc : ~qc[k]

\* quality_checks holds all four checks, all true
AllChecksPass(s) ==
    LET qc == Get(s, "quality_checks", EmptyDict)
    IN  DOMAIN qc = CheckNames /\ \A k \in CheckNames : qc[k]

\* the mapping s[field] holds no score under key (or is itself absent)
MetricMissing(s, field, key) == key \notin DOMAIN Get(s, field, EmptyDict)

\* the keys of the dict that a step turning s into t has written
Written(s, t) ==
    {k \in DOMAIN t : k \notin DOMAIN s \/ t[k] # s[k]} \cup (DOMAIN s \ DOMAIN t)

ForcePublish(s) == Get(s, "human_force_publish", FALSE)

FinalPostIsDraft(s) ==
    /\ "final_post" \in DOMAIN s
    /\ "draft" \in DOMAIN s
    /\ s["final_post"] = s["draft"]

-----------------------------------------------------------------------------
(* Properties *)

\* C1: final_post is written exactly once per run, on the iteration that is
\* routed to "end": it is set when the run is at END and at no other time.
C1_FinalPostSetExactlyAtEnd ==
    ("final_post" \in DOMAIN state) <=> (pc = "END")

\* C2: a router iteration entered with a failing critical check, no human
\* override and refinement_count < max_refinements is routed to "refine"
\* (back to the writer) and increments refinement_count by exactly 1.
C2_CriticalFailureRefines ==
    [][(/\ pc = "router"
        /\ CriticalFailure(state)
        /\ ~ForcePublish(state)
        /\ RefinementCount(state) < MaxRefinements(state))
       => (/\ route' = "refine"
           /\ pc' = "writer"
           /\ RefinementCount(state') = RefinementCount(state) + 1)]_vars

\* C3: in every terminated run final_post equals the latest draft and
\* needs_refinement is false.
C3_TerminatedRunHasFinalPost ==
    pc = "END" => /\ FinalPostIsDraft(state)
                  /\ Get(state, "needs_refinement", FALSE) = FALSE

\* C4: refinement_count never exceeds max_refinements, for every run that
\* starts with 0 <= refinement_count <= max_refinements.
C4_RefinementCountBounded ==
    RefinementCount(state) <= MaxRefinements(state)

\* C4 witness: the router has run more than once and the count is at the cap
C4_Witness ==
    /\ pc = "END"
    /\ writer_runs >= 2
    /\ RefinementCount(state) = MaxRefinements(state)
    /\ RefinementCount(state) = MaxMaxRefinements

\* C5: should_refine_enhanced returns "refine" whenever the override is not
\* set, a critical check is marked false and refinement_count < max_refinements,
\* whatever needs_refinement and the sentiment and seo checks are.
C5_CriticalFailureReturnsRefine ==
    (/\ pc = "routed"
     /\ ~ForcePublish(state)
     /\ CriticalFailure(state)
     /\ RefinementCount(state) < MaxRefinements(state))
    => route = "refine"

\* C5 witness: a critical failure below the cap with needs_refinement false
C5_Witness ==
    /\ pc = "routed"
    /\ ~ForcePublish(state)
    /\ CriticalFailure(state)
    /\ RefinementCount(state) < MaxRefinements(state)
    /\ "needs_refinement" \in DOMAIN state
    /\ ~state["needs_refinement"]
    /\ route = "refine"

\* C6: should_refine_enhanced returns "end" whenever human_force_publish is
\* true, whatever the checks, needs_refinement and the counters are.
C6_ForcePublishReturnsEnd ==
    (pc = "routed" /\ ForcePublish(state)) => route = "end"

\* C6 witness: the override ends a state that would otherwise be refined
C6_Witness ==
    /\ pc = "routed"
    /\ ForcePublish(state)
    /\ CriticalFailure(state)
    /\ Get(state, "needs_refinement", FALSE)
    /\ RefinementCount(state) < MaxRefinements(state)
    /\ route = "end"

\* C7: without human review every run terminates, and the writer runs at
\* most max_refinements + 1 times.
C7_TerminatesWithBoundedWriterRuns ==
    /\ (~enable_hitl) => <>(pc = "END")
    /\ []((~enable_hitl) => writer_runs <= MaxRefinements(state) + 1)

\* C7 witness: a run without human review that looped back and terminated
C7_Witness ==
    /\ ~enable_hitl
    /\ pc = "END"
    /\ writer_runs >= 2

\* C8: with max_refinements = 0 (in a run that reaches the gate, that is
\* without human review) the first gate evaluation ends the run: the
\* writer runs once, refinement_count stays 0, the route is "end" and
\* final_post is the first draft, whether or not the checks pass.
C8_ZeroMaxRefinementsEndsAtFirstGate ==
    (MaxRefinements(state) = 0 /\ ~enable_hitl) =>
        /\ writer_runs <= 1
        /\ RefinementCount(state) = 0
        /\ route # "none" => (/\ pc = "END"
                              /\ route = "end"
                              /\ writer_runs = 1
                              /\ FinalPostIsDraft(state))

\* C8 witness: a run with max_refinements = 0 ended with a failing check
C8_Witness ==
    /\ MaxRefinements(state) = 0
    /\ ~enable_hitl
    /\ pc = "END"
    /\ SomeCheckFails(state)
    /\ ~ForcePublish(state)

\* C9: a router iteration entered with needs_refinement true and
\* refinement_count >= max_refinements is routed to "end", sets final_post to
\* the current draft although checks still fail, and keeps refinement_count.
C9_CapReachedAcceptsDraft ==
    [][(/\ pc = "router"
        /\ Get(state, "needs_refinement", FALSE)
        /\ RefinementCount(state) >= MaxRefinements(state))
       => (/\ route' = "end"
           /\ pc' = "END"
           /\ "final_post" \in DOMAIN state'
           /\ state'["final_post"] = Get(state, "draft", "")
           /\ SomeCheckFails(state')
           /\ RefinementCount(state') = RefinementCount(state))]_vars

\* C9 witness: a run ended with final_post set while a check is marked false
C9_Witness ==
    /\ pc = "END"
    /\ FinalPostIsDraft(state)
    /\ SomeCheckFails(state)
    /\ RefinementCount(state) >= MaxRefinements(state)

\* C10: when all four checks pass, merge sets needs_refinement to false, and
\* the router iteration is routed to "end" with final_post equal to the
\* current draft and refinement_count unchanged.
C10_AllChecksPassEndsRun ==
    [][/\ (/\ pc = "analysis"
           /\ done = AnalysisNodes
           /\ \A k \in CheckNames : Checks(state, env)[k])
          => (/\ pc' = "router"
              /\ "needs_refinement" \in DOMAIN state'
              /\ state'["needs_refinement"] = FALSE
              /\ AllChecksPass(state'))
       /\ (pc = "router" /\ AllChecksPass(state))
          => (/\ route' = "end"
              /\ pc' = "END"
              /\ "final_post" \in DOMAIN state'
              /\ state'["final_post"] = Get(state, "draft", "")
              /\ RefinementCount(state') = RefinementCount(state))]_vars

\* C10 witness: a run ended with the scores 0.9 / 0.9 under default thresholds
C10_Witness ==
    /\ pc = "END"
    /\ env = EmptyDict
    /\ AllChecksPass(state)
    /\ state["scores"] = [faithfulness |-> 90, answer_relevancy |-> 90]
    /\ ~Get(state, "needs_refinement", FALSE)
    /\ FinalPostIsDraft(state)

\* C11: immediately after merge_analysis_results, needs_refinement is false
\* if and only if all four entries of quality_checks are true.
C11_NeedsRefinementIffSomeCheckFails ==
    pc = "merged" =>
        /\ "needs_refinement" \in DOMAIN state
        /\ (state["needs_refinement"] = FALSE) <=> AllChecksPass(state)

\* C11 witness: merge ran with only the seo check failing
C11_Witness ==
    /\ pc = "merged"
    /\ state["needs_refinement"]
    /\ state["quality_checks"] =
          [faithfulness |-> TRUE, relevancy |-> TRUE, sentiment |-> TRUE, seo |-> FALSE]

\* C12 as claimed: in every state after the first merge step, needs_refinement
\* is true if and only if at least one entry of quality_checks is false.
C12_NeedsRefinementTracksChecks ==
    "quality_checks" \in DOMAIN state =>
        (Get(state, "needs_refinement", FALSE) <=> SomeCheckFails(state))

\* C12 as amended: in every state after the first merge step, needs_refinement
\* true implies that some entry of quality_checks is false, and the converse
\* holds except once the router has accepted the draft at the refinement cap,
\* which clears needs_refinement and leaves quality_checks as it was.
C12_NeedsRefinementTracksChecksUntilCap ==
    "quality_checks" \in DOMAIN state =>
        /\ Get(state, "needs_refinement", FALSE) => SomeCheckFails(state)
        /\ (SomeCheckFails(state) /\ ~Get(state, "needs_refinement", FALSE))
           => (/\ pc = "END"
               /\ route = "end"
               /\ FinalPostIsDraft(state)
               /\ RefinementCount(state) >= MaxRefinements(state))

\* C12 witness: the router has run and sent a failing draft back to the writer
C12_Witness ==
    /\ pc = "writer"
    /\ route = "refine"
    /\ Get(state, "needs_refinement", FALSE)
    /\ SomeCheckFails(state)

\* C14: refinement_count grows by exactly one on each router iteration routed
\* to "refine", is unchanged on each iteration routed to "end", and never
\* decreases.
C14_CountFollowsRoute ==
    [][/\ pc = "router"
          => /\ route' = "refine"
                => RefinementCount(state') = RefinementCount(state) + 1
             /\ route' = "end"
                => RefinementCount(state') = RefinementCount(state)
       /\ RefinementCount(state') >= RefinementCount(state)]_vars

\* C13: when merge_analysis_results is given a state in which a metric is
\* missing, it raises nothing and the check of every missing metric evaluates
\* false, whatever the other scores and the thresholds in force are.
C13_MissingMetricFailsItsCheck ==
    pc = "merged" =>
        /\ "quality_checks" \in DOMAIN state
        /\ MetricMissing(state, "scores", "faithfulness")
           => ~state["quality_checks"]["faithfulness"]
        /\ MetricMissing(state, "scores", "answer_relevancy")
           => ~state["quality_checks"]["relevancy"]
        /\ MetricMissing(state, "sentiment_analysis", "sentiment_score")
           => ~state["quality_checks"]["sentiment"]
        /\ MetricMissing(state, "seo_metrics", "readability_score")
           => ~state["quality_checks"]["seo"]

\* C15: no step starts before its declared predecessors have completed: the
\* planner precedes the writer, the writer precedes the analysis nodes, merge
\* runs once per iteration and only after fact_checker, sentiment_analyzer and
\* seo_optimizer have all completed for the current draft, and the router runs
\* only after merge.
C15_StepsFollowPredecessors ==
    /\ writer_runs >= 1 => "plan" \in DOMAIN state
    /\ done # {} => (writer_runs >= 1 /\ "draft" \in DOMAIN state)
    /\ merge_runs <= writer_runs
    /\ pc = "analysis" => merge_runs = writer_runs - 1
    /\ pc = "router" => (done = AnalysisNodes /\ merge_runs = writer_runs)
    /\ merge_runs >= 1 =>
          {"scores", "sentiment_analysis", "seo_metrics"} \subseteq DOMAIN state
    /\ pc = "END" => merge_runs = writer_runs

\* C15 witness: the second iteration's merge has run and the router is next
C15_Witness ==
    /\ pc = "router"
    /\ done = AnalysisNodes
    /\ writer_runs = 2
    /\ merge_runs = 2

\* C16: fact_checker, analyze_sentiment and optimize_seo write pairwise
\* disjoint sets of state fields, and the state handed to merge is the same
\* whatever the order in which the three steps run.
C16_ParallelStepsCommute ==
    (pc = "analysis" /\ done = {}) =>
        \A sc \in ScoreDicts :
            LET f(s) == check_facts(s, sc)
                a(s) == analyze_sentiment(s)
                o(s) == optimize_seo(s)
                r == o(a(f(state)))
            IN  /\ a(o(f(state))) = r
                /\ o(f(a(state))) = r
                /\ f(o(a(state))) = r
                /\ a(f(o(state))) = r
                /\ f(a(o(state))) = r
                /\ writer_runs = 1 =>
                      /\ Written(state, f(state)) # {}
                      /\ Written(state, a(state)) # {}
                      /\ Written(state, o(state)) # {}
                      /\ Written(state, f(state)) \cap Written(state, a(state)) = {}
                      /\ Written(state, f(state)) \cap Written(state, o(state)) = {}
                      /\ Written(state, a(state)) \cap Written(state, o(state)) = {}

\* C16 witness: the three steps have run, in some order, on the second draft
C16_Witness ==
    /\ pc = "analysis"
    /\ done = AnalysisNodes
    /\ writer_runs = 2
    /\ state["seo_metrics"]["readability_score"] = readability_score
    /\ state["sentiment_analysis"]["sentiment_score"] = sentiment_score
    /\ state["scores"] = [faithfulness |-> 90, answer_relevancy |-> 50]

\* C17: with enable_hitl the run suspends after every writer execution and
\* before the fan-out: no analysis step has started for a draft that
\* human_review has not been resumed for and let through.
C17_NoAnalysisBeforeReview ==
    enable_hitl =>
        /\ pc \in {"planner", "writer", "human_review", "interrupted"}
        /\ done = {}
        /\ merge_runs = 0
        /\ DOMAIN state \cap {"scores", "sentiment_analysis", "seo_metrics"} = {}

\* C17 witness: a run suspended again after a resume that approved the draft
C17_Witness ==
    /\ enable_hitl
    /\ pc = "interrupted"
    /\ writer_runs >= 1
    /\ resumes >= 1
    /\ Get(state, "human_approved", FALSE)
    /\ done = {}

\* C18: with enable_hitl, once the interrupted run has been resumed with
\* human_approved = true, the workflow leaves human_review for the analysis
\* fan-out (and from there completes with final_post set).
C18_ApprovedResumeLeavesReview ==
    [][(/\ enable_hitl
        /\ pc = "human_review"
        /\ resumes >= 1
        /\ Get(state, "human_approved", FALSE))
       => pc' = "analysis"]_vars

\* C19: route_to_specialized_writer is the fixed table over (platform,
\* content_type): linkedin/technical, linkedin/thought_leadership,
\* linkedin/other, twitter/thread, twitter/other, any other platform; it
\* depends on no other field of the state (a missing platform counts as
\* linkedin, a missing content_type as standard).
C19_WriterTable ==
    pc = "writer_routed" =>
        LET p == IF "platform" \in DOMAIN state THEN state["platform"] ELSE "linkedin"
            c == IF "content_type" \in DOMAIN state THEN state["content_type"]
                 ELSE "standard"
        IN  route =
              CASE p = "linkedin" /\ c = "technical" -> "technical_linkedin_writer"
                [] p = "linkedin" /\ c = "thought_leadership" -> "thought_leader_writer"
                [] p = "linkedin" /\ c \notin {"technical", "thought_leadership"}
                     -> "standard_linkedin_writer"
                [] p = "twitter" /\ c = "thread" -> "twitter_thread_writer"
                [] p = "twitter" /\ c # "thread" -> "twitter_writer"
                [] p \notin {"linkedin", "twitter"} -> "general_writer"

\* C19 witness: twitter/thread is routed to the thread writer
C19_Witness ==
    /\ pc = "writer_routed"
    /\ Get(state, "platform", "linkedin") = "twitter"
    /\ Get(state, "content_type", "standard") = "thread"
    /\ "tone" \in DOMAIN state
    /\ route = "twitter_thread_writer"

\* the order and the remediation sentences C20 names
CheckOrder == <<"faithfulness", "relevancy", "sentiment", "seo">>

RemediationText ==
    [faithfulness |-> "Improve factual accuracy based on source materials.",
     relevancy |-> "Stay more focused on the topic: ",
     sentiment |-> "Adjust tone to better match requested: ",
     seo |-> "Improve readability and keyword usage for better engagement."]

FailedInOrder(qc) == SelectSeq(CheckOrder, LAMBDA k : ~qc[k])

\* C20: the feedback written by merge_analysis_results holds exactly one
\* remediation sentence per failed check and none for a passed one, in the
\* order faithfulness, relevancy, sentiment, seo; when all four checks pass
\* it is the fixed message "All quality checks passed!".
C20_FeedbackListsFailedChecksInOrder ==
    pc = "merged" =>
        LET failed == FailedInOrder(state["quality_checks"])
            feedback == state["feedback"]
        IN  IF failed = <<>>
            THEN feedback = << <<"All quality checks passed!">> >>
            ELSE /\ Len(feedback) = Len(failed)
                 /\ \A i \in 1..Len(failed) :
                       feedback[i][1] = RemediationText[failed[i]]

\* C20 witness: relevancy and sentiment failed, faithfulness and seo passed
C20_Witness ==
    /\ pc = "merged"
    /\ state["quality_checks"] =
          [faithfulness |-> TRUE, relevancy |-> FALSE, sentiment |-> FALSE, seo |-> TRUE]
    /\ Len(state["feedback"]) = 2

-----------------------------------------------------------------------------
\* C21: every step of a run leaves the input fields user_id, session_id,
\* topic, platform and tone as they are: a field the caller supplied keeps its
\* value, and a field the caller left out (tone) is not added.
InputFieldsOf(s) == [k \in InputFields \cap DOMAIN s |-> s[k]]

C21_InputFieldsUnchanged ==
    [][InputFieldsOf(state') = InputFieldsOf(state)]_vars

\* C21 witness: a run that went through every step and ended, with the five
\* input fields as the caller gave them
C21_Witness ==
    /\ pc = "END"
    /\ merge_runs >= 1
    /\ InputFieldsOf(state) =
           [user_id |-> "user-456", session_id |-> "session-123",
            topic |-> "AI advancements", platform |-> "linkedin",
            tone |-> "insightful"]

-----------------------------------------------------------------------------
\* the last return of should_refine_enhanced ("refine" for a failure that is
\* not critical, below the cap) is the one taken on s
FinalRefineReturn(s) ==
    /\ ~ForcePublish(s)
    /\ ~(CriticalFailure(s) /\ RefinementCount(s) < MaxRefinements(s))
    /\ ~(~Get(s, "needs_refinement", FALSE)
          \/ RefinementCount(s) >= MaxRefinements(s))

\* C27: in a graph run the sentiment and seo checks that merge computes are
\* always true; so when the router is about to run, needs_refinement is true
\* exactly when a critical check failed, and the conditional edge never takes
\* the last "refine" return of should_refine_enhanced.
C27_NonCriticalChecksAlwaysPass ==
    /\ "quality_checks" \in DOMAIN state =>
           /\ state["quality_checks"]["sentiment"]
           /\ state["quality_checks"]["seo"]
    /\ pc = "router" =>
           (Get(state, "needs_refinement", FALSE) <=> CriticalFailure(state))
    /\ (route # "none" /\ pc \in {"writer", "END"}) => ~FinalRefineReturn(state)

\* C27 witness: the edge sent a run with a failed critical check back to the
\* writer, with sentiment and seo passed
C27_Witness ==
    /\ pc = "writer"
    /\ route = "refine"
    /\ CriticalFailure(state)
    /\ state["quality_checks"]["sentiment"]
    /\ state["quality_checks"]["seo"]

-----------------------------------------------------------------------------
\* C25: with enable_hitl, once the interrupted run has been resumed with
\* human_approved = false and a human_feedback text, the workflow leaves
\* human_review for the writer (and not for the analysis fan-out).
C25_RejectedResumeReturnsToWriter ==
    [][(/\ enable_hitl
        /\ pc = "human_review"
        /\ resumes >= 1
        /\ ~Get(state, "human_approved", TRUE)
        /\ Get(state, "human_feedback", "None") = "feedback")
       => pc' = "writer"]_vars

-----------------------------------------------------------------------------
(* The API of src/api/main.py: POST /sessions, POST /posts:generate and     *)
(* POST /posts:generate:stream.  A string is a sequence of one-character    *)
(* strings.                                                                 *)

\* longest user_id a client sends
MaxUserIdLen == 3

\* longest session_id a client makes up itself
MaxSessionIdLen == 3

Seqs(S, n) == UNION {[1..k -> S] : k \in 0..n}

UserIds == Seqs({"u", "-"}, MaxUserIdLen) \ {<<>>}

\* uuid.uuid4().hex[:8]: eight hexadecimal digits
Randoms ==
    {<<"0", "0", "0", "0", "0", "0", "0", "0">>,
     <<"d", "e", "a", "d", "b", "e", "e", "f">>}

\* session ids that do not come from create_session
ClientSessionIds == Seqs({"s", "-"}, MaxSessionIdLen)

\* f"session-{user_id}-{random}"
SessionIdFor(user_id, random) ==
    <<"s", "e", "s", "s", "i", "o", "n">> \o <<"-">> \o user_id \o <<"-">> \o random

RECURSIVE SplitFrom(_, _, _, _)
SplitFrom(s, i, part, parts) ==
    IF i > Len(s) THEN Append(parts, part)
    ELSE IF s[i] = "-" THEN SplitFrom(s, i + 1, <<>>, Append(parts, part))
    ELSE SplitFrom(s, i + 1, Append(part, s[i]), parts)

\* s.split("-")
Split(s) == SplitFrom(s, 1, <<>>, <<>>)

\* user_id = request.session_id.split("-")[1]
ExtractUserId(session_id) ==
    LET parts == Split(session_id)
    IN  IF Len(parts) >= 2
        THEN [raised |-> "none", user_id |-> parts[2]]
        ELSE [raised |-> "IndexError", user_id |-> <<>>]

\* what run_post_generator does: it returns, or the retriever raises
\* ValueError, or float(os.getenv(...)) of a threshold that is not a number
\* raises ValueError, or another step raises some other exception
WorkflowOutcomes ==
    {[raised |-> "none", origin |-> "none"],
     [raised |-> "ValueError", origin |-> "retriever"],
     [raised |-> "ValueError", origin |-> "merge_analysis_results"],
     [raised |-> "RuntimeError", origin |-> "writer"]}

\* the except clauses of generate_post, in order: ValueError, then Exception
\* (HTTPException is an Exception and no ValueError)
OuterExcept(raised) ==
    IF raised = "ValueError" THEN 424 ELSE 500

\* generate_post: the whole handler.  The HTTPException(400) of the inner
\* except IndexError is raised inside the outer try.
generate_post(session_id, outcome) ==
    LET extracted == ExtractUserId(session_id)
        body_raised == IF extracted.raised = "IndexError" THEN "HTTPException"
                       ELSE outcome.raised
    IN  [status_code |-> IF body_raised = "none" THEN 200
                         ELSE OuterExcept(body_raised),
         extracted |-> extracted.raised = "none",
         user_id |-> extracted.user_id,
         workflow_calls |-> IF extracted.raised = "none" THEN 1 ELSE 0,
         event |-> "none"]

\* generate_post_stream: the whole handler and its event generator
generate_post_stream(session_id, outcome) ==
    LET extracted == ExtractUserId(session_id)
    IN  [status_code |-> 200,
         extracted |-> extracted.raised = "none",
         user_id |-> extracted.user_id,
         workflow_calls |-> IF extracted.raised = "none" THEN 1 ELSE 0,
         event |-> IF extracted.raised = "IndexError" \/ outcome.raised # "none"
                   THEN "error" ELSE "complete"]

NoResponse ==
    [status_code |-> 0, extracted |-> FALSE, user_id |-> <<>>,
     workflow_calls |-> 0, event |-> "none"]

NoOutcome == [raised |-> "none", origin |-> "none"]

ApiInit ==
    /\ api \in {[step |-> "start", user_id |-> u, session_id |-> <<>>,
                 issued |-> FALSE, handler |-> "none", outcome |-> NoOutcome,
                 response |-> NoResponse] : u \in UserIds}
    /\ state = EmptyDict
    /\ env = EmptyDict
    /\ enable_hitl = FALSE
    /\ pc = "api"
    /\ done = {}
    /\ route = "none"
    /\ writer_runs = 0
    /\ merge_runs = 0
    /\ resumes = 0
    /\ sessions = Idle
    /\ pipeline = Idle

\* POST /sessions
CreateSession ==
    /\ api.step = "start"
    /\ \E random \in Randoms :
          api' = [api EXCEPT !.step = "has_session",
                             !.session_id = SessionIdFor(api.user_id, random),
                             !.issued = TRUE]
    /\ UNCHANGED <<graph_vars, sessions, pipeline>>

\* the client uses a session_id that POST /sessions did not issue
ClientSessionId ==
    /\ api.step = "start"
    /\ \E session_id \in ClientSessionIds :
          api' = [api EXCEPT !.step = "has_session", !.session_id = session_id]
    /\ UNCHANGED <<graph_vars, sessions, pipeline>>

\* POST /posts:generate
GeneratePost ==
    /\ api.step = "has_session"
    /\ \E outcome \in WorkflowOutcomes :
          LET response == generate_post(api.session_id, outcome)
          IN  api' = [api EXCEPT !.step = "responded",
                                 !.handler = "generate_post",
                                 !.outcome = IF response.workflow_calls = 0
                                             THEN NoOutcome ELSE outcome,
                                 !.response = response]
    /\ UNCHANGED <<graph_vars, sessions, pipeline>>

\* POST /posts:generate:stream
GeneratePostStream ==
    /\ api.step = "has_session"
    /\ \E outcome \in WorkflowOutcomes :
          LET response == generate_post_stream(api.session_id, outcome)
          IN  api' = [api EXCEPT !.step = "responded",
                                 !.handler = "generate_post_stream",
                                 !.outcome = IF response.workflow_calls = 0
                                             THEN NoOutcome ELSE outcome,
                                 !.response = response]
    /\ UNCHANGED <<graph_vars, sessions, pipeline>>

ApiNext == CreateSession \/ ClientSessionId \/ GeneratePost \/ GeneratePostStream

ApiSpec == ApiInit /\ [][ApiNext]_vars

HasSeparator(s) == \E i \in 1..Len(s) : s[i] = "-"

\* C22: POST /posts:generate answers 400 whenever the session_id of the
\* request holds no "-", and the workflow is not run for that request.
C22_NoSeparatorAnswers400 ==
    (/\ api.step = "responded"
     /\ api.handler = "generate_post"
     /\ ~HasSeparator(api.session_id))
    => (api.response.status_code = 400 /\ api.response.workflow_calls = 0)

\* C23: in POST /posts:generate the workflow is run at most once (no retry), a
\* failure of the retriever is answered with 424, and every other failure
\* of the workflow is answered with 500 (only retriever failures give 424).
C23_Only424ForRetriever ==
    (/\ api.step = "responded"
     /\ api.handler = "generate_post")
    => /\ api.response.workflow_calls <= 1
       /\ api.outcome.origin = "retriever" => api.response.status_code = 424
       /\ api.response.status_code = 424 => api.outcome.origin = "retriever"
       /\ (api.outcome.raised # "none" /\ api.outcome.origin # "retriever")
             => api.response.status_code = 500

\* C26: the user_id that generate_post and generate_post_stream extract from
\* a session_id that create_session issued is the user_id create_session put
\* into it, for every user_id, those that hold a "-" included.
C26_ExtractedUserIdIsEmbedded ==
    (api.step = "responded" /\ api.issued)
    => (api.response.extracted /\ api.response.user_id = api.user_id)

-----------------------------------------------------------------------------
(* create_session and the memory store.  LongTermMemory is an external     *)
(* store (Cosmos or in-memory) that every worker serving the API reads and  *)
(* writes; a request is handled by one worker, and the requests of          *)
(* different workers interleave at the calls to the store.                  *)

Workers == {"w1", "w2"}

Users == {"user-456", "user-789"}

NoPrefs == EmptyDict

\* the preferences create_session writes for a new user
DefaultPrefs(user_id, platform) ==
    [user_id |-> user_id, preferred_tone |-> "professional",
     platform_defaults |-> {platform}]

\* preferences a user has stored before
StoredPrefs(user_id) ==
    [user_id |-> user_id, preferred_tone |-> "casual",
     platform_defaults |-> {"linkedin"}]

SessionsInit ==
    /\ \E known \in SUBSET Users :
       \E requests \in [Workers -> Users \X {"linkedin", "twitter"}] :
          sessions =
             [store |-> [u \in known |-> StoredPrefs(u)],
              workers |-> [w \in Workers |->
                             [pc |-> "start", user_id |-> requests[w][1],
                              platform |-> requests[w][2],
                              user_prefs |-> NoPrefs]],
              default_writes |-> [u \in Users |-> 0],
              overwritten |-> FALSE]
    /\ state = EmptyDict
    /\ env = EmptyDict
    /\ enable_hitl = FALSE
    /\ pc = "sessions"
    /\ done = {}
    /\ route = "none"
    /\ writer_runs = 0
    /\ merge_runs = 0
    /\ resumes = 0
    /\ api = Idle
    /\ pipeline = Idle

\* user_prefs = ltm.get_user_preferences(request.user_id)
GetUserPreferences(w) ==
    LET self == sessions.workers[w]
    IN  /\ self.pc = "start"
        /\ sessions' =
              [sessions EXCEPT
                 !.workers[w].pc = "loaded",
                 !.workers[w].user_prefs = Get(sessions.store, self.user_id, NoPrefs)]
        /\ UNCHANGED <<graph_vars, api, pipeline>>

\* if not user_prefs: ltm.upsert_user_preferences(request.user_id, {...})
UpsertUserPreferences(w) ==
    LET self == sessions.workers[w]
    IN  /\ self.pc = "loaded"
        /\ DOMAIN self.user_prefs = {}
        /\ sessions' =
              [sessions EXCEPT
                 !.workers[w].pc = "created",
                 !.store = Put(sessions.store, self.user_id,
                               DefaultPrefs(self.user_id, self.platform)),
                 !.default_writes[self.user_id] = @ + 1,
                 !.overwritten = @ \/ self.user_id \in DOMAIN sessions.store]
        /\ UNCHANGED <<graph_vars, api, pipeline>>

\* user_prefs holds something: the session is returned without a write
ReturnSession(w) ==
    LET self == sessions.workers[w]
    IN  /\ self.pc = "loaded"
        /\ DOMAIN self.user_prefs # {}
        /\ sessions' = [sessions EXCEPT !.workers[w].pc = "created"]
        /\ UNCHANGED <<graph_vars, api, pipeline>>

SessionsNext ==
    \E w \in Workers :
        GetUserPreferences(w) \/ UpsertUserPreferences(w) \/ ReturnSession(w)

SessionsSpec == SessionsInit /\ [][SessionsNext]_vars

\* C24: create_session writes the default preferences only when the store
\* holds none for the user and never overwrites preferences the store holds;
\* whatever the order and interleaving of the create_session calls for one
\* user, the defaults are written at most once.
C24_DefaultsWrittenAtMostOnce ==
    /\ ~sessions.overwritten
    /\ \A u \in Users : sessions.default_writes[u] <= 1

-----------------------------------------------------------------------------
(* PDFDataPipeline.run of src/datapipeline/run_datapipeline.py.  A PDF is   *)
(* what the stages of process_pdf do with it; its name is its position in   *)
(* the list that data_dir.glob("*.pdf") returned.                           *)

\* most PDFs in the data directory
MaxPdfs == 2

\* how many chunks chunk_content makes of a document
ChunkCounts == {0, 2}

\* parse_pdf returns a document or None; chunk_content returns chunks or
\* raises; generate_embeddings gives some of the chunks a content_vector;
\* upload_to_search returns True or False
PdfBehaviours ==
    {b \in [parsed : BOOLEAN, chunk_raises : BOOLEAN, chunks : ChunkCounts,
            valid_chunks : {0, 1, 2}, uploaded : BOOLEAN] :
        b.valid_chunks <= b.chunks}

\* what data_dir.glob("*.pdf") may return
PdfLists == Seqs(PdfBehaviours, MaxPdfs)

\* process_pdf: True, False, or an exception out of chunk_content
process_pdf(pdf) ==
    IF ~pdf.parsed THEN [raised |-> FALSE, success |-> FALSE]
    ELSE IF pdf.chunk_raises THEN [raised |-> TRUE, success |-> FALSE]
    ELSE IF pdf.chunks = 0 THEN [raised |-> FALSE, success |-> FALSE]
    ELSE IF pdf.valid_chunks = 0 THEN [raised |-> FALSE, success |-> FALSE]
    ELSE [raised |-> FALSE, success |-> pdf.uploaded]

\* the loop body whose except clause records the file but does not count it
loop_body_error_not_counted(results, name, pdf) ==
    LET outcome == process_pdf(pdf)
    IN  IF outcome.raised
        THEN [results EXCEPT
                !.files = Append(@, [name |-> name, status |-> "error"])]
        ELSE IF outcome.success
        THEN [results EXCEPT
                !.successful = @ + 1,
                !.files = Append(@, [name |-> name, status |-> "success"])]
        ELSE [results EXCEPT
                !.failed = @ + 1,
                !.files = Append(@, [name |-> name, status |-> "failed"])]

\* one pass of the for loop of run: try, if/else, except Exception
loop_body(results, name, pdf) ==
    LET outcome == process_pdf(pdf)
    IN  IF outcome.raised
        THEN [results EXCEPT
                !.failed = @ + 1,
                !.files = Append(@, [name |-> name, status |-> "error"])]
        ELSE IF outcome.success
        THEN [results EXCEPT
                !.successful = @ + 1,
                !.files = Append(@, [name |-> name, status |-> "success"])]
        ELSE [results EXCEPT
                !.failed = @ + 1,
                !.files = Append(@, [name |-> name, status |-> "failed"])]

NoResults == [total |-> 0, successful |-> 0, failed |-> 0, files |-> <<>>]

PipelineInit ==
    /\ \E exists \in BOOLEAN :
       \E pdf_files \in PdfLists :
          /\ (~exists) => pdf_files = <<>>
          /\ pipeline = [step |-> "start", data_dir_exists |-> exists,
                         pdf_files |-> pdf_files, processed |-> 0,
                         error |-> "none", results |-> NoResults]
    /\ state = EmptyDict
    /\ env = EmptyDict
    /\ enable_hitl = FALSE
    /\ pc = "pipeline"
    /\ done = {}
    /\ route = "none"
    /\ writer_runs = 0
    /\ merge_runs = 0
    /\ resumes = 0
    /\ api = Idle
    /\ sessions = Idle

\* run up to the loop: the two early returns, or the initial results
RunStart ==
    /\ pipeline.step = "start"
    /\ pipeline' =
          IF ~pipeline.data_dir_exists
          THEN [pipeline EXCEPT !.step = "returned",
                                !.error = "Directory not found"]
          ELSE IF pipeline.pdf_files = <<>>
          THEN [pipeline EXCEPT !.step = "returned", !.error = "No PDFs found"]
          ELSE [pipeline EXCEPT
                  !.step = "loop",
                  !.results = [total |-> Len(pipeline.pdf_files),
                               successful |-> 0, failed |-> 0, files |-> <<>>]]
    /\ UNCHANGED <<graph_vars, api, sessions>>

\* for pdf_path in pdf_files: one pass
ProcessNextPdf ==
    /\ pipeline.step = "loop"
    /\ pipeline.processed < Len(pipeline.pdf_files)
    /\ LET name == pipeline.processed + 1
       IN  pipeline' =
              [pipeline EXCEPT
                 !.processed = name,
                 !.results = loop_body(pipeline.results, name,
                                       pipeline.pdf_files[name])]
    /\ UNCHANGED <<graph_vars, api, sessions>>

\* the loop is over: return results
ReturnResults ==
    /\ pipeline.step = "loop"
    /\ pipeline.processed = Len(pipeline.pdf_files)
    /\ pipeline' = [pipeline EXCEPT !.step = "returned"]
    /\ UNCHANGED <<graph_vars, api, sessions>>

PipelineNext == RunStart \/ ProcessNextPdf \/ ReturnResults

PipelineSpec == PipelineInit /\ [][PipelineNext]_vars

\* the run has passed the early returns
InLoopOrReturned ==
    /\ pipeline.step \in {"loop", "returned"}
    /\ pipeline.error = "none"

\* the PDFs (names) the files list holds an entry for, entry by entry
FileNames(files) == [k \in 1..Len(files) |-> files[k].name]

\* C28 as stated: after every pass of the loop and at the end,
\* successful + failed = total and files holds exactly one entry for each
\* PDF found.
C28_CountsEqualTotalAfterEveryStep ==
    (InLoopOrReturned /\ pipeline.processed >= 1)
    => /\ pipeline.results.successful + pipeline.results.failed
             = pipeline.results.total
       /\ FileNames(pipeline.results.files)
             = [k \in 1..Len(pipeline.pdf_files) |-> k]

\* C28 amended: when at least one PDF is found, after every pass of the loop
\* successful + failed equals the number of PDFs processed so far and files
\* holds exactly one entry for each of them, in order, with the status of
\* its process_pdf call; total is the number of PDFs found; the run returns
\* only after every PDF has been processed, failures and exceptions of
\* earlier PDFs notwithstanding, and then successful + failed = total.
C28_CountsFollowProcessedPdfs ==
    InLoopOrReturned
    => /\ pipeline.results.total = Len(pipeline.pdf_files)
       /\ pipeline.results.successful + pipeline.results.failed
             = pipeline.processed
       /\ FileNames(pipeline.results.files)
             = [k \in 1..pipeline.processed |-> k]
       /\ \A k \in 1..pipeline.processed :
             pipeline.results.files[k].status =
                LET outcome == process_pdf(pipeline.pdf_files[k])
                IN  IF outcome.raised THEN "error"
                    ELSE IF outcome.success THEN "success" ELSE "failed"
       /\ pipeline.results.successful =
             Cardinality({k \in 1..pipeline.processed :
                             pipeline.results.files[k].status = "success"})
       /\ pipeline.step = "returned" =>
             /\ pipeline.processed = pipeline.results.total
             /\ pipeline.results.successful + pipeline.results.failed
                   = pipeline.results.total

\* C28 witness: a returned run over two PDFs of which the first raised and
\* the second succeeded
C28_Witness ==
    /\ pipeline.step = "returned"
    /\ pipeline.error = "none"
    /\ pipeline.results.total = 2
    /\ FileNames(pipeline.results.files) = <<1, 2>>
    /\ pipeline.results.files[1].status = "error"
    /\ pipeline.results.files[2].status = "success"
    /\ pipeline.results.successful = 1
    /\ pipeline.results.failed = 1

====
